---- MODULE Spec2Model ----
(***************************************************************************)
(* Model of the layout core of glazewm:                                    *)
(*   packages/wm-common/src/rect.rs          the Rect value type           *)
(*   packages/wm/src/traits/position_getters.rs   to_rect of a resizable   *)
(*                                            tiling container             *)
(* f32 values (tiling_size, LengthValue amounts, scale factors) are        *)
(* rationals <<numerator, denominator>> with a positive denominator; the   *)
(* values used are exactly representable in f32.  i32 arithmetic is        *)
(* modelled without wrap-around: all values stay far from the i32 limits.  *)
(***************************************************************************)
EXTENDS Integers, Sequences, FiniteSets, TLC

VARIABLES
  this,             \* receiver rectangle of a Rect method call
  arg,              \* rectangle argument (outer_rect / other)
  rdelta,           \* <<d>> for a RectDelta d, or NoDelta
  scale,            \* scale_factor: Option<f32>
  result,           \* rectangle returned by the last Rect method call
  op,               \* sequence of the Rect methods called so far
  parent,           \* what self.parent() is: "none", "non_direction", "direction"
  parent_result,    \* what parent.to_rect() returns
  tiling_direction, \* parent.tiling_direction()
  gaps,             \* <<horizontal_gap, vertical_gap>> of inner_gaps()
  gaps_fail,        \* children whose inner_gaps() returns Err
  children,         \* the parent's child list, in tree order
  rects             \* rects[i]: what to_rect returned for child i, once called

vars == <<this, arg, rdelta, scale, result, op, parent, parent_result,
          tiling_direction, gaps, gaps_fail, children, rects>>

rect_vars == <<this, arg, rdelta, scale, result, op>>
tree_vars == <<parent, parent_result, tiling_direction, gaps, gaps_fail,
               children, rects>>

(***************************************************************************)
(* Bounds                                                                  *)
(***************************************************************************)
MaxX == 2
MaxY == 1
MaxD == 2
MaxChildren == 4
MaxDim == 3

CoordsX == -1..MaxX
CoordsY == -1..MaxY

(***************************************************************************)
(* i32 / f32 helpers                                                       *)
(***************************************************************************)
Max(a, b) == IF a >= b THEN a ELSE b
Min(a, b) == IF a <= b THEN a ELSE b

\* (n / d) as i32 : a float-to-int cast truncates toward zero (d > 0)
TruncDiv(n, d) == IF n >= 0 THEN n \div d ELSE -((-n) \div d)

\* (n / d).round() as i32 : f32::round rounds half away from zero (d > 0)
RoundDiv(n, d) ==
  IF n >= 0 THEN (2 * n + d) \div (2 * d) ELSE -((2 * (-n) + d) \div (2 * d))

(***************************************************************************)
(* Rect                                                                    *)
(***************************************************************************)
from_ltrb(l, t, r, b) == [left |-> l, top |-> t, right |-> r, bottom |-> b]

from_xy(px, py, w, h) ==
  [left |-> px, top |-> py, right |-> px + w, bottom |-> py + h]

x(self) == self.left
y(self) == self.top
width(self) == self.right - self.left
height(self) == self.bottom - self.top

clamp_min_left(self, outer_rect) ==
  from_xy(Min(self.left, outer_rect.left),
          Max(self.top, outer_rect.top),
          Min(width(self), width(outer_rect)),
          Min(height(self), height(outer_rect)))

clamp(self, outer_rect) ==
  from_xy(Max(self.left, outer_rect.left),
          Max(self.top, outer_rect.top),
          Min(width(self), width(outer_rect)),
          Min(height(self), height(outer_rect)))

\* the final clamp up to the outer rectangle's left/top is missing
clamp_within_bounds_no_underflow(self, outer_rect) ==
  LET clamped_width == Min(width(self), width(outer_rect))
      clamped_height == Min(height(self), height(outer_rect))
      x0 == x(self)
      y0 == y(self)
      x1 == IF x0 + clamped_width > outer_rect.right
              THEN outer_rect.right - clamped_width ELSE x0
      y1 == IF y0 + clamped_height > outer_rect.bottom
              THEN outer_rect.bottom - clamped_height ELSE y0
  IN  from_xy(x1, y1, clamped_width, clamped_height)

\* the size is not capped to the outer rectangle's
clamp_within_bounds_no_cap(self, outer_rect) ==
  LET clamped_width == width(self)
      clamped_height == height(self)
      x0 == x(self)
      y0 == y(self)
      x1 == IF x0 + clamped_width > outer_rect.right
              THEN outer_rect.right - clamped_width ELSE x0
      y1 == IF y0 + clamped_height > outer_rect.bottom
              THEN outer_rect.bottom - clamped_height ELSE y0
      x2 == Max(x1, outer_rect.left)
      y2 == Max(y1, outer_rect.top)
  IN  from_xy(x2, y2, clamped_width, clamped_height)

clamp_within_bounds(self, outer_rect) ==
  LET clamped_width == Min(width(self), width(outer_rect))
      clamped_height == Min(height(self), height(outer_rect))
      x0 == x(self)
      y0 == y(self)
      x1 == IF x0 + clamped_width > outer_rect.right
              THEN outer_rect.right - clamped_width ELSE x0
      y1 == IF y0 + clamped_height > outer_rect.bottom
              THEN outer_rect.bottom - clamped_height ELSE y0
      x2 == Max(x1, outer_rect.left)
      y2 == Max(y1, outer_rect.top)
  IN  from_xy(x2, y2, clamped_width, clamped_height)

(***************************************************************************)
(* LengthValue and RectDelta (wm-common, length_value.rs / rect_delta.rs)  *)
(***************************************************************************)
from_px(px) == [amount |-> <<px, 1>>, unit |-> "Pixel"]

from_percentage(num, den) == [amount |-> <<num, den>>, unit |-> "Percentage"]

NoScale == <<>>

\* a percentage is taken of total_px; a pixel amount is multiplied by the
\* scale factor (1.0 when absent); the product is cast to i32
to_px(lv, total_px, scale_factor) ==
  LET sf == IF scale_factor = NoScale THEN <<1, 1>> ELSE scale_factor
  IN  IF lv.unit = "Percentage"
        THEN TruncDiv(lv.amount[1] * total_px, lv.amount[2])
        ELSE TruncDiv(lv.amount[1] * sf[1], lv.amount[2] * sf[2])

delta(self, other) ==
  [left   |-> from_px(other.left - self.left),
   top    |-> from_px(other.top - self.top),
   right  |-> from_px(self.right - other.right),
   bottom |-> from_px(self.bottom - other.bottom)]

apply_delta(self, d, scale_factor) ==
  from_ltrb(self.left - to_px(d.left, width(self), scale_factor),
            self.top - to_px(d.top, height(self), scale_factor),
            self.right + to_px(d.right, width(self), scale_factor),
            self.bottom + to_px(d.bottom, height(self), scale_factor))

\* the right edge is moved the same way apply_delta moves it
apply_inverse_delta_right_sign(self, d, scale_factor) ==
  from_ltrb(self.left + to_px(d.left, width(self), scale_factor),
            self.top + to_px(d.top, height(self), scale_factor),
            self.right + to_px(d.right, width(self), scale_factor),
            self.bottom - to_px(d.bottom, height(self), scale_factor))

\* the scale factor is dropped
apply_inverse_delta_no_scale(self, d, scale_factor) ==
  from_ltrb(self.left + to_px(d.left, width(self), NoScale),
            self.top + to_px(d.top, height(self), NoScale),
            self.right - to_px(d.right, width(self), NoScale),
            self.bottom - to_px(d.bottom, height(self), NoScale))

apply_inverse_delta(self, d, scale_factor) ==
  from_ltrb(self.left + to_px(d.left, width(self), scale_factor),
            self.top + to_px(d.top, height(self), scale_factor),
            self.right - to_px(d.right, width(self), scale_factor),
            self.bottom - to_px(d.bottom, height(self), scale_factor))

(***************************************************************************)
(* The container tree as to_rect reads it.  A child is the index of its    *)
(* entry in `children`; an entry is [tiling, tiling_size].                 *)
(***************************************************************************)
None == 0

Ok(r) == [ok |-> TRUE, rect |-> r]
Err(e) == [ok |-> FALSE, err |-> e]

\* siblings before self, nearest first
prev_siblings(self) == [k \in 1..(self - 1) |-> self - k]

\* siblings after self, in tree order
next_siblings(self) == [k \in 1..(Len(children) - self) |-> self + k]

as_tiling_container(sibling) == children[sibling].tiling

\* the other children of the parent that are tiling containers
tiling_siblings(self) ==
  {s \in 1..Len(children) : s # self /\ as_tiling_container(s)}

tiling_size(self) == children[self].tiling_size

\* self.inner_gaps(): Err for the containers in gaps_fail
inner_gaps(self) ==
  IF self \in gaps_fail THEN Err("inner_gaps failed") ELSE Ok(gaps)

\* siblings.filter_map(|s| s.as_tiling_container().ok()).next()
first_tiling(siblings) ==
  LET tiling == SelectSeq(siblings, as_tiling_container)
  IN  IF Len(tiling) = 0 THEN None ELSE tiling[1]

\* self.parent().and_then(|p| p.as_direction_container().ok()).context(..)
parent_direction_container_unchecked ==
  Ok(parent)

parent_direction_container ==
  IF parent = "direction"
    THEN Ok(parent)
    ELSE Err("Parent does not have a tiling direction.")

select_inner_gap_swapped(direction, horizontal_gap, vertical_gap) ==
  IF direction = "Vertical" THEN horizontal_gap ELSE vertical_gap

select_inner_gap(direction, horizontal_gap, vertical_gap) ==
  IF direction = "Vertical" THEN vertical_gap ELSE horizontal_gap

\* the product is cast to i32 without .round()
provisional_size_truncated(available, size) ==
  TruncDiv(available * size[1], size[2])

\* (available as f32 * self.tiling_size()).round() as i32
provisional_size(available, size) ==
  RoundDiv(available * size[1], size[2])

\* the last sibling keeps its provisional size
fill_last_never(is_last, provisional, parent_far_edge, start) ==
  provisional

\* if is_last { size = parent far edge - own start }
fill_last(is_last, provisional, parent_far_edge, start) ==
  IF is_last THEN parent_far_edge - start ELSE provisional

RECURSIVE to_rect(_)
to_rect(self) ==
  LET parent_dc == parent_direction_container
  IN
  IF ~parent_dc.ok THEN parent_dc
  ELSE IF ~parent_result.ok THEN parent_result
  ELSE IF ~inner_gaps(self).ok THEN inner_gaps(self)
  ELSE
    LET parent_rect == parent_result.rect
        horizontal_gap == inner_gaps(self).rect[1]
        vertical_gap == inner_gaps(self).rect[2]
        inner_gap ==
          select_inner_gap(tiling_direction, horizontal_gap, vertical_gap)
        sibling_count == Cardinality(tiling_siblings(self))
        is_last == first_tiling(next_siblings(self)) = None
        prev == first_tiling(prev_siblings(self))
        sibling_result == to_rect(prev)
    IN
    IF prev # None /\ ~sibling_result.ok THEN sibling_result
    ELSE
      LET sibling_rect == sibling_result.rect
          size ==
            IF tiling_direction = "Vertical"
              THEN
                LET available_height ==
                      height(parent_rect) - inner_gap * sibling_count
                    provisional ==
                      provisional_size(available_height, tiling_size(self))
                    y0 == IF prev = None
                            THEN y(parent_rect)
                            ELSE y(sibling_rect) + height(sibling_rect)
                                   + inner_gap
                IN  <<width(parent_rect),
                      fill_last(is_last, provisional, parent_rect.bottom, y0)>>
              ELSE
                LET available_width ==
                      width(parent_rect) - inner_gap * sibling_count
                    provisional ==
                      provisional_size(available_width, tiling_size(self))
                    x0 == IF prev = None
                            THEN x(parent_rect)
                            ELSE x(sibling_rect) + width(sibling_rect)
                                   + inner_gap
                IN  <<fill_last(is_last, provisional, parent_rect.right, x0),
                      height(parent_rect)>>
          final_x ==
            IF prev = None THEN x(parent_rect)
            ELSE IF tiling_direction = "Vertical" THEN x(parent_rect)
            ELSE x(sibling_rect) + width(sibling_rect) + inner_gap
          final_y ==
            IF prev = None THEN y(parent_rect)
            ELSE IF tiling_direction = "Vertical"
              THEN y(sibling_rect) + height(sibling_rect) + inner_gap
            ELSE y(parent_rect)
      IN  Ok(from_xy(final_x, final_y, size[1], size[2]))

(***************************************************************************)
(* Idle values of the variables a specification does not use               *)
(***************************************************************************)
NoDelta == <<>>
ZeroRect == from_ltrb(0, 0, 0, 0)

RectIdle ==
  /\ this = ZeroRect /\ arg = ZeroRect /\ rdelta = NoDelta
  /\ scale = NoScale /\ result = ZeroRect /\ op = <<>>

TreeIdle ==
  /\ parent = "none" /\ parent_result = [ok |-> FALSE, err |-> "idle"]
  /\ tiling_direction = "Horizontal" /\ gaps = <<0, 0>> /\ gaps_fail = {}
  /\ children = <<>> /\ rects = <<>>

(***************************************************************************)
(* SpecClamp: clamp and clamp_within_bounds called on any pair of          *)
(* rectangles, degenerate and negative-size ones included                  *)
(***************************************************************************)
Rects ==
  {from_ltrb(c[1], c[2], c[3], c[4]) :
     c \in CoordsX \X CoordsY \X CoordsX \X CoordsY}

InitClamp ==
  /\ this \in Rects /\ arg \in Rects
  /\ rdelta = NoDelta /\ scale = NoScale /\ result = this /\ op = <<>>
  /\ TreeIdle

Clamp ==
  /\ op = <<>>
  /\ result' = clamp(this, arg)
  /\ op' = <<"clamp">>
  /\ UNCHANGED <<this, arg, rdelta, scale>>
  /\ UNCHANGED tree_vars

ClampWithinBounds ==
  /\ op = <<>>
  /\ result' = clamp_within_bounds(this, arg)
  /\ op' = <<"clamp_within_bounds">>
  /\ UNCHANGED <<this, arg, rdelta, scale>>
  /\ UNCHANGED tree_vars

NextClamp == Clamp \/ ClampWithinBounds

SpecClamp == InitClamp /\ [][NextClamp]_vars

(***************************************************************************)
(* Claims about clamp and clamp_within_bounds (SpecClamp)                  *)
(***************************************************************************)
CalledClampWithinBounds == op = <<"clamp_within_bounds">>
CalledClamp == op = <<"clamp">>

\* C2: containment for clamp_within_bounds: for every rectangle and every
\* outer rectangle, degenerate and negative-size ones included, the result
\* has left >= outer.left, top >= outer.top, right <= outer.right and
\* bottom <= outer.bottom.
C2_Containment ==
  CalledClampWithinBounds =>
    /\ result.left >= arg.left
    /\ result.top >= arg.top
    /\ result.right <= arg.right
    /\ result.bottom <= arg.bottom

\* C2 witness: a rectangle wider and taller than a negative-size outer
\* rectangle, sticking out of it on every side, has been clamped.
C2_Witness ==
  /\ CalledClampWithinBounds
  /\ width(arg) < 0 /\ height(arg) < 0
  /\ this.left < arg.left /\ this.right > arg.right
  /\ this.top < arg.top /\ this.bottom > arg.bottom
  /\ result # this

\* the per-axis reference of C5: size w = min(own, outer); start is
\* max(outer start, own start) if own start + w <= outer end, otherwise
\* max(outer start, outer end - w)
RefSize(own_size, outer_size) == Min(own_size, outer_size)
RefStart(own_start, own_size, outer_start, outer_end) ==
  LET w == RefSize(own_size, outer_end - outer_start)
  IN  IF own_start + w <= outer_end
        THEN Max(outer_start, own_start)
        ELSE Max(outer_start, outer_end - w)

C5_MatchesReference ==
  /\ width(result) = RefSize(width(this), width(arg))
  /\ height(result) = RefSize(height(this), height(arg))
  /\ result.left = RefStart(this.left, width(this), arg.left, arg.right)
  /\ result.top = RefStart(this.top, height(this), arg.top, arg.bottom)

C5_InsideUnchanged ==
  (/\ this.left >= arg.left /\ this.top >= arg.top
   /\ this.right <= arg.right /\ this.bottom <= arg.bottom) => result = this

C5_LargerBecomesOuter ==
  (width(this) > width(arg) /\ height(this) > height(arg)) => result = arg

OverflowsOnlyRight == this.left >= arg.left /\ this.right > arg.right
OverflowsOnlyBottom == this.top >= arg.top /\ this.bottom > arg.bottom

\* C5 as stated: clamp_within_bounds matches the per-axis reference;
\* consequently a rectangle inside the outer one is returned unchanged, a
\* rectangle overflowing only the right/bottom edge keeps its size and lands
\* with that edge on the outer edge, and a rectangle larger than the outer
\* one on both axes becomes exactly the outer one.
C5_AsStated ==
  CalledClampWithinBounds =>
    /\ C5_MatchesReference
    /\ C5_InsideUnchanged
    /\ OverflowsOnlyRight =>
         (width(result) = width(this) /\ result.right = arg.right)
    /\ OverflowsOnlyBottom =>
         (height(result) = height(this) /\ result.bottom = arg.bottom)
    /\ C5_LargerBecomesOuter

\* C5 amended: as C5, except that a rectangle overflowing only the
\* right/bottom edge keeps its size only when it is no wider/taller than
\* the outer rectangle (a wider/taller one is capped to the outer size); in
\* both cases it lands with that edge exactly on the outer edge.
C5_Amended ==
  CalledClampWithinBounds =>
    /\ C5_MatchesReference
    /\ C5_InsideUnchanged
    /\ OverflowsOnlyRight =>
         /\ result.right = arg.right
         /\ width(this) <= width(arg) => width(result) = width(this)
         /\ width(this) > width(arg) => width(result) = width(arg)
    /\ OverflowsOnlyBottom =>
         /\ result.bottom = arg.bottom
         /\ height(this) <= height(arg) => height(result) = height(this)
         /\ height(this) > height(arg) => height(result) = height(arg)
    /\ C5_LargerBecomesOuter

\* C5 witness: a rectangle that fits the outer one but overflows its right
\* and bottom edges has been moved back with its size kept.
C5_Witness ==
  /\ CalledClampWithinBounds
  /\ OverflowsOnlyRight /\ OverflowsOnlyBottom
  /\ width(this) > 0 /\ width(this) <= width(arg)
  /\ height(this) > 0 /\ height(this) <= height(arg)
  /\ result # this
  /\ result.right = arg.right /\ result.bottom = arg.bottom

\* C9: clamp returns left = max(self.left, outer.left), top = max(self.top,
\* outer.top), width = min of the widths, height = min of the heights; its
\* near edges are never before the outer rectangle's near edges.  (That the
\* far edges can stick out is the reachable state C9_Witness.)
C9_ClampNearEdgesOnly ==
  CalledClamp =>
    /\ result.left = Max(this.left, arg.left)
    /\ result.top = Max(this.top, arg.top)
    /\ result.right - result.left = Min(this.right - this.left,
                                        arg.right - arg.left)
    /\ result.bottom - result.top = Min(this.bottom - this.top,
                                        arg.bottom - arg.top)
    /\ result.left >= arg.left
    /\ result.top >= arg.top

\* C9 witness: a rectangle starting inside the outer one, no wider than it
\* and extending past outer.right, is returned by clamp with
\* right > outer.right.
C9_Witness ==
  /\ CalledClamp
  /\ this.left >= arg.left /\ this.left < arg.right
  /\ width(this) <= width(arg)
  /\ this.right > arg.right
  /\ result.right > arg.right

(***************************************************************************)
(* SpecDelta: delta, apply_delta and apply_inverse_delta.  Either the      *)
(* delta is computed by delta(this, arg), or it is any RectDelta of pixel  *)
(* and percentage LengthValues, applied with any scale factor.  Each       *)
(* method is called at most once; apply_* is called on the rectangle the   *)
(* previous call returned.                                                 *)
(***************************************************************************)
DeltaRects ==
  {from_ltrb(c[1], c[2], c[3], c[4]) :
     c \in (0..MaxD) \X {0, 1} \X (0..MaxD) \X {0, 1}}

LengthValues == {from_px(-1), from_px(3), from_percentage(1, 2)}

RectDeltas == [left : LengthValues, top : LengthValues,
               right : LengthValues, bottom : LengthValues]

ScaleFactors == {NoScale, <<3, 2>>, <<2, 1>>}

InitDelta ==
  /\ this \in DeltaRects
  /\ \/ arg \in DeltaRects /\ rdelta = NoDelta /\ scale = NoScale
     \/ arg = this /\ rdelta \in {<<d>> : d \in RectDeltas} /\ scale \in ScaleFactors
  /\ result = this /\ op = <<>>
  /\ TreeIdle

Called(name) == \E i \in 1..Len(op) : op[i] = name

Delta ==
  /\ rdelta = NoDelta
  /\ rdelta' = <<delta(this, arg)>>
  /\ op' = Append(op, "delta")
  /\ UNCHANGED <<this, arg, scale, result>>
  /\ UNCHANGED tree_vars

ApplyDelta ==
  /\ rdelta # NoDelta /\ ~Called("apply_delta")
  /\ result' = apply_delta(result, rdelta[1], scale)
  /\ op' = Append(op, "apply_delta")
  /\ UNCHANGED <<this, arg, rdelta, scale>>
  /\ UNCHANGED tree_vars

ApplyInverseDelta ==
  /\ rdelta # NoDelta /\ ~Called("apply_inverse_delta")
  /\ result' = apply_inverse_delta(result, rdelta[1], scale)
  /\ op' = Append(op, "apply_inverse_delta")
  /\ UNCHANGED <<this, arg, rdelta, scale>>
  /\ UNCHANGED tree_vars

NextDelta == Delta \/ ApplyDelta \/ ApplyInverseDelta

SpecDelta == InitDelta /\ [][NextDelta]_vars

(***************************************************************************)
(* Claims about the deltas (SpecDelta)                                     *)
(***************************************************************************)
IsPixelDelta(od) ==
  /\ od # NoDelta
  /\ od[1].left.unit = "Pixel" /\ od[1].top.unit = "Pixel"
  /\ od[1].right.unit = "Pixel" /\ od[1].bottom.unit = "Pixel"

\* C3 as stated: with d = a.delta(b) and no scale factor,
\* a.apply_delta(d) equals b.
C3_AsStated ==
  (op = <<"delta", "apply_delta">> /\ scale = NoScale) => result = arg

\* C3 amended: with d = a.delta(b) (four absolute pixel values) and no
\* scale factor, a.apply_inverse_delta(d) equals b.
C3_Amended ==
  (op = <<"delta", "apply_inverse_delta">> /\ scale = NoScale) =>
    (IsPixelDelta(rdelta) /\ result = arg)

\* C3 witness: the delta between two rectangles differing on all four edges
\* has been computed and applied with apply_inverse_delta.
C3_Witness ==
  /\ op = <<"delta", "apply_inverse_delta">>
  /\ this.left # arg.left /\ this.top # arg.top
  /\ this.right # arg.right /\ this.bottom # arg.bottom
  /\ result = arg

Applies == SelectSeq(op, LAMBDA name : name # "delta")

\* C6: for a delta of four absolute pixel amounts and the same scale factor
\* in both calls, r.apply_delta(d).apply_inverse_delta(d) = r and
\* r.apply_inverse_delta(d).apply_delta(d) = r.
C6_ExactInverses ==
  (IsPixelDelta(rdelta) /\ Len(Applies) = 2) => result = this

\* C6 witness: a pixel delta that moves all four edges under a scale factor
\* other than 1 has been applied and then undone, in each of the two orders.
C6_MovesAllEdges ==
  /\ IsPixelDelta(rdelta) /\ scale = <<3, 2>>
  /\ apply_delta(this, rdelta[1], scale).left # this.left
  /\ apply_delta(this, rdelta[1], scale).right # this.right
  /\ apply_delta(this, rdelta[1], scale).top # this.top
  /\ apply_delta(this, rdelta[1], scale).bottom # this.bottom

C6_Witness ==
  /\ C6_MovesAllEdges
  /\ op = <<"apply_delta", "apply_inverse_delta">>
  /\ result = this

C6_WitnessInverseFirst ==
  /\ C6_MovesAllEdges
  /\ op = <<"apply_inverse_delta", "apply_delta">>
  /\ result = this

\* percentage amounts are resolved against the current width/height, so
\* the round trip is not exact for them: this state is reachable
PercentageRoundTripDiffers ==
  /\ rdelta # NoDelta /\ ~IsPixelDelta(rdelta)
  /\ Len(Applies) = 2 /\ result # this

(***************************************************************************)
(* SpecTree: to_rect called on the tiling children of one parent, in tree  *)
(* order.  The parent has 1..MaxChildren tiling children of any of the     *)
(* TilingSizes, with at most one non-tiling child anywhere among them.     *)
(***************************************************************************)
TilingSizes == {<<1, 4>>, <<1, 2>>, <<1, 1>>}
Directions == {"Horizontal", "Vertical"}
GapPairs == {<<0, 1>>, <<1, 0>>}
ParentOrigin == <<-1, 2>>
CrossDims == {5}

TilingChild(size) == [tiling |-> TRUE, tiling_size |-> size]
NonTilingChild == [tiling |-> FALSE, tiling_size |-> <<0, 1>>]

InsertAt(seq, k, e) ==
  SubSeq(seq, 1, k - 1) \o <<e>> \o SubSeq(seq, k, Len(seq))

TilingLists ==
  UNION {[1..n -> {TilingChild(size) : size \in TilingSizes}] :
           n \in 1..MaxChildren}

ChildLists ==
  TilingLists \cup
  UNION {{InsertAt(l, k, NonTilingChild) : k \in 1..(Len(l) + 1)} :
           l \in TilingLists}

\* a parent rectangle whose primary-axis dimension is primary
ParentRect(direction, primary, cross) ==
  IF direction = "Vertical"
    THEN from_xy(ParentOrigin[1], ParentOrigin[2], cross, primary)
    ELSE from_xy(ParentOrigin[1], ParentOrigin[2], primary, cross)

\* a well-formed tree: the parent is a direction container with a rectangle
InitLayout ==
  /\ parent = "direction"
  /\ tiling_direction \in Directions
  /\ \E primary \in 0..MaxDim, cross \in CrossDims :
       parent_result = Ok(ParentRect(tiling_direction, primary, cross))
  /\ gaps \in GapPairs
  /\ gaps_fail = {}
  /\ children \in ChildLists

\* the rounding scenario: a Vertical parent of height 1001, vertical gap 10,
\* two children of tiling_size 0.5
ScenarioParentRect == from_xy(0, 0, 800, 1001)
ScenarioChildren == <<TilingChild(<<1, 2>>), TilingChild(<<1, 2>>)>>

InitScenario ==
  /\ parent = "direction"
  /\ tiling_direction = "Vertical"
  /\ parent_result = Ok(ScenarioParentRect)
  /\ gaps = <<4, 10>>
  /\ gaps_fail = {}
  /\ children = ScenarioChildren

\* a malformed tree or a failing collaborator: no parent, a parent without
\* a tiling direction, a parent whose to_rect fails, a child whose
\* inner_gaps fails
InitFault ==
  /\ parent \in {"none", "non_direction", "direction"}
  /\ tiling_direction \in Directions
  /\ parent_result \in
       {Err("parent to_rect failed"),
        Ok(ParentRect(tiling_direction, MaxDim, 5))}
  /\ gaps = <<1, 0>>
  /\ children \in TilingLists
  /\ gaps_fail \in {{}} \cup {{i} : i \in 1..Len(children)}
  /\ \/ parent # "direction"
     \/ ~parent_result.ok
     \/ gaps_fail # {}

InitTree ==
  /\ RectIdle
  /\ rects = <<>>
  /\ (InitLayout \/ InitScenario \/ InitFault)

Resolved(i) == i \in DOMAIN rects

\* the caller resolves the next tiling child, in tree order
ToRect ==
  /\ \E self \in 1..Len(children) :
       /\ as_tiling_container(self)
       /\ ~Resolved(self)
       /\ \A s \in 1..(self - 1) : as_tiling_container(s) => Resolved(s)
       /\ rects' = rects @@ (self :> to_rect(self))
  /\ UNCHANGED <<parent, parent_result, tiling_direction, gaps, gaps_fail,
                 children>>
  /\ UNCHANGED rect_vars

NextTree == ToRect

SpecTree == InitTree /\ [][NextTree]_vars

(***************************************************************************)
(* Claims about to_rect (SpecTree)                                         *)
(***************************************************************************)
TilingChildren == {i \in 1..Len(children) : children[i].tiling}
NumTiling == Cardinality(TilingChildren)

AllResolved ==
  /\ TilingChildren # {}
  /\ \A i \in TilingChildren : Resolved(i) /\ rects[i].ok

Vertical == tiling_direction = "Vertical"

\* the gap of the parent's direction
Gap == IF Vertical THEN gaps[2] ELSE gaps[1]

PrimaryStart(r) == IF Vertical THEN r.top ELSE r.left
PrimaryFar(r) == IF Vertical THEN r.bottom ELSE r.right
PrimarySize(r) == PrimaryFar(r) - PrimaryStart(r)
CrossStart(r) == IF Vertical THEN r.left ELSE r.top
CrossFar(r) == IF Vertical THEN r.right ELSE r.bottom
CrossSize(r) == CrossFar(r) - CrossStart(r)

\* the tiling child immediately before i, or None
PrecedingTiling(i) ==
  IF \E j \in TilingChildren : j < i
    THEN CHOOSE j \in TilingChildren :
           j < i /\ \A k \in TilingChildren : k < i => k <= j
    ELSE None

HasFollowingTiling(i) == \E j \in TilingChildren : j > i

RECURSIVE SumPrimary(_)
SumPrimary(S) ==
  IF S = {} THEN 0
  ELSE LET i == CHOOSE j \in S : TRUE
       IN  PrimarySize(rects[i].rect) + SumPrimary(S \ {i})

\* C1: partition exactness: once every tiling child of the parent is
\* resolved, the sum of the children's primary-axis sizes plus
\* gap * (n - 1) equals the parent's primary-axis dimension, whatever the
\* direction, the gap and the tiling_size values.
C1_PartitionExact ==
  AllResolved =>
    SumPrimary(TilingChildren) + Gap * (NumTiling - 1)
      = PrimarySize(parent_result.rect)

\* the tiling_size values of the tiling children add up to more than 1
SizesExceedOne ==
  \E i \in TilingChildren, j \in TilingChildren :
    /\ i # j
    /\ children[i].tiling_size = <<1, 1>> /\ children[j].tiling_size = <<1, 2>>

LastTiling == CHOOSE i \in TilingChildren : ~HasFollowingTiling(i)

Available == PrimarySize(parent_result.rect) - Gap * (NumTiling - 1)

\* C1 witness: three or more children with a gap between them, whose
\* tiling_size values exceed 1 in total, are all resolved, and the last one
\* did not get the rounded share of its tiling_size.
C1_Witness ==
  /\ AllResolved
  /\ NumTiling >= 3 /\ Gap > 0 /\ SizesExceedOne
  /\ PrimarySize(rects[LastTiling].rect)
       # RoundDiv(Available * children[LastTiling].tiling_size[1],
                  children[LastTiling].tiling_size[2])

\* C4: to_rect returns the structural error when the container has no
\* parent or the parent is no direction container; the error of the
\* parent's to_rect is returned unchanged; and when the preceding tiling
\* sibling's to_rect failed, the container's own to_rect fails too.
C4_ErrorsPropagate ==
  \A i \in DOMAIN rects :
    /\ parent # "direction" =>
         rects[i] = Err("Parent does not have a tiling direction.")
    /\ (parent = "direction" /\ ~parent_result.ok) =>
         rects[i] = parent_result
    /\ (PrecedingTiling(i) # None /\ ~rects[PrecedingTiling(i)].ok) =>
         ~rects[i].ok

\* C4 witness: under a direction container with a rectangle, the first
\* child's to_rect failed and so did the to_rect of the second child,
\* which has no failure of its own.
C4_Witness ==
  /\ parent = "direction" /\ parent_result.ok
  /\ gaps_fail = {1}
  /\ Resolved(1) /\ Resolved(2)
  /\ ~rects[1].ok /\ ~rects[2].ok

\* the structural error has been returned for a container without a parent
\* and for one whose parent has no tiling direction
StructuralErrorNoParent ==
  parent = "none" /\ Resolved(1) /\ ~rects[1].ok
StructuralErrorNonDirection ==
  parent = "non_direction" /\ Resolved(1) /\ ~rects[1].ok
ParentRectErrorReturned ==
  parent = "direction" /\ ~parent_result.ok /\ Resolved(1) /\ ~rects[1].ok

\* C7: sibling chaining: every resolved child has the parent's cross-axis
\* start and size; its primary-axis start is the parent's when no tiling
\* sibling precedes it, and otherwise the far edge of the immediately
\* preceding tiling sibling's rectangle plus the gap of the parent's
\* direction; non-tiling siblings in between change nothing.
C7_SiblingChaining ==
  \A i \in DOMAIN rects :
    rects[i].ok =>
      LET r == rects[i].rect
          p == parent_result.rect
          j == PrecedingTiling(i)
      IN  /\ CrossStart(r) = CrossStart(p)
          /\ CrossSize(r) = CrossSize(p)
          /\ j = None => PrimaryStart(r) = PrimaryStart(p)
          /\ j # None => PrimaryStart(r) = PrimaryFar(rects[j].rect) + Gap

\* C7 witness: a child separated from the preceding tiling sibling by a
\* non-tiling one is resolved, with a non-zero gap and a preceding sibling
\* of non-zero size.
C7_Witness ==
  \E i \in DOMAIN rects :
    /\ rects[i].ok
    /\ i >= 3 /\ ~children[i - 1].tiling /\ PrecedingTiling(i) = i - 2
    /\ Gap > 0
    /\ PrimarySize(rects[i - 2].rect) > 0
    /\ PrimaryStart(rects[i].rect) > PrimaryStart(parent_result.rect)

Abs(n) == IF n >= 0 THEN n ELSE -n

InScenario ==
  /\ Vertical /\ children = ScenarioChildren /\ gaps[2] = 10
  /\ parent_result = Ok(ScenarioParentRect)

\* C8: a child with a following tiling sibling has primary size
\* available * tiling_size rounded to the nearest integer, with
\* available = parent primary dimension - gap * (other tiling siblings);
\* the last tiling child has parent far edge - own primary start.  For a
\* Vertical parent of height 1001, gap 10 and two children of tiling_size
\* 0.5: the first has height 496, the second starts 506 below the parent's
\* top with height 495, and heights plus gap total 1001.
C8_RoundedShare ==
  /\ \A i \in DOMAIN rects :
       rects[i].ok =>
         LET r == rects[i].rect
             num == children[i].tiling_size[1]
             den == children[i].tiling_size[2]
         IN  IF HasFollowingTiling(i)
               THEN 2 * Abs(PrimarySize(r) * den - Available * num) <= den
               ELSE PrimarySize(r)
                      = PrimaryFar(parent_result.rect) - PrimaryStart(r)
  /\ (InScenario /\ Resolved(1)) => height(rects[1].rect) = 496
  /\ (InScenario /\ Resolved(2)) =>
       /\ rects[2].rect.top = parent_result.rect.top + 506
       /\ height(rects[2].rect) = 495
       /\ height(rects[1].rect) + 10 + height(rects[2].rect) = 1001

\* C8 witness: both children of the scenario are resolved.
C8_Witness == InScenario /\ Resolved(1) /\ Resolved(2)

\* a share that is not an integer has been rounded up, and one down
RoundedUp ==
  \E i \in DOMAIN rects :
    /\ rects[i].ok /\ HasFollowingTiling(i)
    /\ PrimarySize(rects[i].rect) * children[i].tiling_size[2]
         > Available * children[i].tiling_size[1]
RoundedDown ==
  \E i \in DOMAIN rects :
    /\ rects[i].ok /\ HasFollowingTiling(i)
    /\ PrimarySize(rects[i].rect) * children[i].tiling_size[2]
         < Available * children[i].tiling_size[1]

RECURSIVE SumSizes(_)
\* the sum of the tiling_size values of the children in S, in quarters
SumSizes(S) ==
  IF S = {} THEN 0
  ELSE LET i == CHOOSE j \in S : TRUE
       IN  (4 * children[i].tiling_size[1]) \div children[i].tiling_size[2]
             + SumSizes(S \ {i})

SizesSumToOne == SumSizes(TilingChildren) = 4

\* C10: with tiling_size values in (0, 1] that sum to 1 and a parent
\* primary dimension of at least gap * (n - 1), every child's rectangle has
\* a non-negative primary size and lies within the parent's rectangle, and
\* no two children's rectangles overlap.
C10_NoEscape ==
  (AllResolved /\ SizesSumToOne /\ Available >= 0) =>
    /\ \A i \in TilingChildren :
         /\ PrimarySize(rects[i].rect) >= 0
         /\ PrimaryStart(rects[i].rect) >= PrimaryStart(parent_result.rect)
         /\ PrimaryFar(rects[i].rect) <= PrimaryFar(parent_result.rect)
    /\ \A i \in TilingChildren, j \in TilingChildren :
         i < j => PrimaryFar(rects[i].rect) <= PrimaryStart(rects[j].rect)

\* the same holds of parents with at most three tiling children
NoEscapeUpToThree == NumTiling <= 3 => C10_NoEscape

====
